---- MODULE Spec2Model ----
(***************************************************************************)
(* Model of the CSV -> MongoDB migration of src/migration.py.              *)
(*                                                                         *)
(* The program reads a CSV file, drops fully duplicated rows, and inserts  *)
(* every row into two collections (patients, admissions), using two        *)
(* in-memory caches and, in append mode (DROP_COLLECTIONS false), find_one *)
(* queries to avoid duplicates.  The store outlives a run, so the model    *)
(* chains up to MaxRuns runs of main() on the same file.                   *)
(*                                                                         *)
(* Representation of values:                                               *)
(*   - a name is a sequence of one-character strings; the missing cell of  *)
(*     an object column is the np.nan singleton, NaNObj;                   *)
(*   - an age cell is <<"num", n>> or, when missing, <<"nan">>; itertuples *)
(*     hands every float cell over as a new Python float, so a missing    *)
(*     age of row i becomes <<"nan", i>>: equal to itself only, as the     *)
(*     tuple comparison of Python finds NaN objects;                       *)
(*   - a date cell is a string, "nan" when missing; a Timestamp is a       *)
(*     string in ISO form, Python's None is the string "None";             *)
(*   - a BSON value loses the identity of a NaN: every NaN is <<"nan">>,   *)
(*     and the server's equality match finds NaN equal to NaN.             *)
(***************************************************************************)
EXTENDS Integers, Sequences, FiniteSets, TLC

\* Longest CSV file (rows before drop_duplicates) the model reads.
MaxRows == 2
\* Number of consecutive runs of main() against the same store.
MaxRuns == 3

VARIABLES
    file,               \* rows of the CSV file at CONFIG["csv_path"]
    drop_collections,   \* CONFIG["drop_collections"] of the current run
    run,                \* number of the current run of main()
    pc,                 \* position of main()
    patients_col,       \* documents of db["patients"]
    admissions_col,     \* documents of db["admissions"]
    indexes,            \* indexes of the two collections
    df,                 \* the dataframe after drop_duplicates
    i,                  \* position of the row loop in df (1-based)
    patient_id,         \* value of process_patient(row) awaiting process_admission
    patients_cache,     \* key -> patient _id
    admissions_cache,   \* key -> admission _id
    created_patients,
    created_admissions,
    report,             \* what the summary logged
    store_calls,        \* store operations issued by the current run
    resolved,           \* history: identifiers returned by process_patient, per row of df
    written,            \* history: admission documents inserted by the current run
    start_store,        \* history: the collections when the current run began
    prev,               \* history: how the previous run ended (<<>> in the first run)
    events              \* history: the steps of the current run, in order, each with
                        \* its row, its store calls and the document counts after it

vars == <<file, drop_collections, run, pc, patients_col, admissions_col, indexes,
          df, i, patient_id, patients_cache, admissions_cache,
          created_patients, created_admissions, report, store_calls, resolved,
          written, start_store, prev, events>>

----------------------------------------------------------------------------
(* Values *)

None == "None"
NaNObj == <<"NaN">>
NoneName == <<"None">>
NaNAge == <<"nan">>
\* Python None in the age field, BSON null once stored
NullAge == <<"null">>

Lowers == {"a", "b", "c", "d", "e", "f"}
Uppers == {"A", "B", "C", "D", "E", "F"}

upper(c) ==
    CASE c = "a" -> "A" [] c = "b" -> "B" [] c = "c" -> "C"
      [] c = "d" -> "D" [] c = "e" -> "E" [] c = "f" -> "F"
      [] OTHER -> c

lower(c) ==
    CASE c = "A" -> "a" [] c = "B" -> "b" [] c = "C" -> "c"
      [] c = "D" -> "d" [] c = "E" -> "e" [] c = "F" -> "f"
      [] OTHER -> c

IsCased(c) == c \in Lowers \cup Uppers

RECURSIVE lstrip(_)
lstrip(s) == IF s # <<>> /\ Head(s) = " " THEN lstrip(Tail(s)) ELSE s

RECURSIVE rstrip(_)
rstrip(s) ==
    IF s # <<>> /\ s[Len(s)] = " " THEN rstrip(SubSeq(s, 1, Len(s) - 1)) ELSE s

strip(s) == rstrip(lstrip(s))

\* str.title(): a cased character is upper-cased when it follows an uncased
\* one (or starts the string) and lower-cased otherwise.
RECURSIVE title_from(_, _)
title_from(s, previous_is_cased) ==
    IF s = <<>> THEN <<>>
    ELSE <<IF previous_is_cased THEN lower(Head(s)) ELSE upper(Head(s))>>
            \o title_from(Tail(s), IsCased(Head(s)))

title(s) == title_from(s, FALSE)

normalize_name(name_str) ==
    IF name_str = NaNObj THEN NoneName ELSE title(strip(name_str))

\* pd.to_datetime on one string: the formats dateutil reads, else it raises.
Parsable(date_str) == date_str \in {"2024-01-05", "01/05/2024", "2024-02-01"}

to_datetime(date_str) ==
    CASE date_str = "2024-01-05" -> "2024-01-05T00:00:00"
      [] date_str = "01/05/2024" -> "2024-01-05T00:00:00"
      [] date_str = "2024-02-01" -> "2024-02-01T00:00:00"

\* parse_date raises exactly when pd.to_datetime does.
parse_date_raises(date_str) == date_str # "nan" /\ ~Parsable(date_str)

parse_date(date_str) ==
    IF date_str = "nan" THEN None ELSE to_datetime(date_str)

\* BSON encoding of a Python value: a float NaN is the double NaN, whichever
\* Python object it was.
IsNaN(v) == Len(v) >= 1 /\ v[1] = "nan"
bson_age(v) == IF IsNaN(v) THEN NaNAge ELSE v

----------------------------------------------------------------------------
(* The CSV files the model reads *)

BaseRow ==
    [name |-> <<" ", "a", "B", " ", "c", "d">>, age |-> <<"num", 30>>,
     gender |-> "Male", blood_type |-> "A+", medical_condition |-> "Flu",
     date_of_admission |-> "2024-01-05", doctor |-> "Dr X", hospital |-> "H1",
     insurance_provider |-> "Aetna", billing_amount |-> 100, room_number |-> 101,
     admission_type |-> "Urgent", discharge_date |-> "2024-02-01",
     medication |-> "Aspirin", test_results |-> "Normal"]

\* same patient and same admission as BaseRow, written differently
SameKeysRow ==
    [BaseRow EXCEPT !.name = <<"A", "b", " ", "C", "d">>,
                    !.date_of_admission = "01/05/2024",
                    !.medical_condition = "Asthma"]

\* same patient as BaseRow, another room
OtherRoomRow == [SameKeysRow EXCEPT !.room_number = 102, !.medical_condition = "Flu"]

\* age and dates missing
NoAgeRow ==
    [BaseRow EXCEPT !.name = <<"e", "f">>, !.age = NaNAge,
                    !.date_of_admission = "nan", !.discharge_date = "nan"]

NoAgeOtherRoomRow == [NoAgeRow EXCEPT !.room_number = 102]

\* name missing, admission date unreadable
BadAdmissionDateRow ==
    [BaseRow EXCEPT !.name = NaNObj, !.age = <<"num", 45>>,
                    !.date_of_admission = "not-a-date"]

\* discharge date unreadable
BadDischargeDateRow ==
    [BaseRow EXCEPT !.name = <<"e", "f">>, !.age = <<"num", 45>>,
                    !.discharge_date = "not-a-date"]

RowSet == {BaseRow, SameKeysRow, OtherRoomRow, NoAgeRow, NoAgeOtherRoomRow,
           BadAdmissionDateRow, BadDischargeDateRow}

Files == UNION {[1..n -> RowSet] : n \in 0..MaxRows}

\* df.drop_duplicates(): rows equal in every column keep their first occurrence
\* (a missing cell equals a missing cell there).
RECURSIVE drop_duplicates_from(_, _)
drop_duplicates_from(rows, kept) ==
    IF rows = <<>> THEN kept
    ELSE drop_duplicates_from(
            Tail(rows),
            IF \E k \in 1..Len(kept) : kept[k] = Head(rows)
                THEN kept ELSE Append(kept, Head(rows)))

drop_duplicates(rows) == drop_duplicates_from(rows, <<>>)

\* df.itertuples(): the tuple of row n; a float cell is a new Python object.
itertuple(frame, n) ==
    [frame[n] EXCEPT !.age = IF @ = NaNAge THEN <<"nan", n>> ELSE @]

----------------------------------------------------------------------------
(* The document store *)

\* Collection.find_one(filter): the first matching document in natural
\* (insertion) order, as a set of at most one document.
first_of(docs) == {d \in docs : \A e \in docs : d._id <= e._id}

\* a filter that matches no document
find_one_patient_no_match(col, patient_doc) == first_of({})

find_one_patient(col, patient_doc) ==
    first_of({d \in col : /\ d.name = patient_doc.name
                          /\ d.age = bson_age(patient_doc.age)
                          /\ d.gender = patient_doc.gender
                          /\ d.blood_type = patient_doc.blood_type})

find_one_admission(col, admission_doc_find) ==
    first_of({d \in col :
                /\ d.patient_id = admission_doc_find.patient_id
                /\ d.date_of_admission = admission_doc_find.date_of_admission
                /\ d.hospital = admission_doc_find.hospital
                /\ d.room_number = admission_doc_find.room_number})

\* the document stored under another _id than the inserted_id handed back
stored_patient_other_id(patient_doc, oid) ==
    [_id |-> oid + 1, name |-> patient_doc.name, age |-> bson_age(patient_doc.age),
     gender |-> patient_doc.gender, blood_type |-> patient_doc.blood_type]

\* Collection.insert_one(doc): the document as stored, with its new _id.
stored_patient(patient_doc, oid) ==
    [_id |-> oid, name |-> patient_doc.name, age |-> bson_age(patient_doc.age),
     gender |-> patient_doc.gender, blood_type |-> patient_doc.blood_type]

PatientsIndex == <<"name", "age", "gender", "blood_type">>
AdmissionsIndex == <<"patient_id", "date_of_admission", "hospital", "room_number">>

EmptyCache == [k \in {} |-> 0]

\* an assignment that leaves the new entry alone in the cache
cache_set_alone(cache, key, value) == [k \in {key} |-> value]

\* cache[key] = value
cache_set(cache, key, value) ==
    [k \in DOMAIN cache \cup {key} |-> IF k = key THEN value ELSE cache[k]]

----------------------------------------------------------------------------
(* process_patient and process_admission, as functions of the state they read *)

patient_key_of(data) ==
    <<normalize_name(data.name), data.age, data.gender, data.blood_type>>

\* process_patient asking the store whatever the mode
process_patient_always_queries(data, col, cache, created, drop, oid) ==
    LET patient_key == patient_key_of(data)
        patient_doc == [name |-> patient_key[1], age |-> patient_key[2],
                        gender |-> patient_key[3], blood_type |-> patient_key[4]]
        existing_patient == find_one_patient(col, patient_doc)
    IN  IF existing_patient # {}
            THEN [patient_id |-> (CHOOSE d \in existing_patient : TRUE)._id,
                  col |-> col, cache |-> cache, created |-> created,
                  calls |-> {"find_one"}, inserted |-> FALSE]
        ELSE [patient_id |-> oid,
              col |-> col \cup {stored_patient(patient_doc, oid)},
              cache |-> cache_set(cache, patient_key, oid),
              created |-> created + 1,
              calls |-> {"find_one", "insert_one"},
              inserted |-> TRUE]

\* The outcome of process_patient(data): the identifier returned, and the
\* collection, cache, counter and store calls after it.
process_patient(data, col, cache, created, drop, oid) ==
    LET patient_key == patient_key_of(data)
        patient_doc == [name |-> patient_key[1], age |-> patient_key[2],
                        gender |-> patient_key[3], blood_type |-> patient_key[4]]
        existing_patient == IF ~drop THEN find_one_patient(col, patient_doc) ELSE {}
        unchanged(id, calls) ==
            [patient_id |-> id, col |-> col, cache |-> cache, created |-> created,
             calls |-> calls, inserted |-> FALSE]
    IN  IF patient_key \in DOMAIN cache
            THEN unchanged(cache[patient_key], {})
        ELSE IF existing_patient # {}
            THEN unchanged((CHOOSE d \in existing_patient : TRUE)._id, {"find_one"})
        ELSE [patient_id |-> oid,
              col |-> col \cup {stored_patient(patient_doc, oid)},
              cache |-> cache_set(cache, patient_key, oid),
              created |-> created + 1,
              calls |-> IF drop THEN {"insert_one"} ELSE {"find_one", "insert_one"},
              inserted |-> TRUE]

\* the key built on the date as the file spells it
admission_key_of_raw_date(data, pid) ==
    <<pid, data.date_of_admission, data.hospital, data.room_number>>

admission_key_of(data, pid) ==
    <<pid, parse_date(data.date_of_admission), data.hospital, data.room_number>>

process_admission_raises(data) ==
    parse_date_raises(data.date_of_admission) \/ parse_date_raises(data.discharge_date)

\* process_admission counting an admission it found in the store as created
process_admission_counts_found(data, pid, col, cache, created, drop, oid) ==
    LET date_of_admission == parse_date(data.date_of_admission)
        discharge_date == parse_date(data.discharge_date)
        admission_key == admission_key_of(data, pid)
        admission_doc_find ==
            [patient_id |-> pid, date_of_admission |-> date_of_admission,
             hospital |-> data.hospital, room_number |-> data.room_number]
        existing == IF ~drop THEN find_one_admission(col, admission_doc_find) ELSE {}
        admission_doc_insert ==
            [_id |-> oid,
             patient_id |-> pid,
             medical_condition |-> data.medical_condition,
             date_of_admission |-> date_of_admission,
             doctor |-> data.doctor,
             hospital |-> data.hospital,
             insurance_provider |-> data.insurance_provider,
             billing_amount |-> data.billing_amount,
             room_number |-> data.room_number,
             admission_type |-> data.admission_type,
             discharge_date |-> discharge_date,
             medication |-> data.medication,
             test_results |-> data.test_results]
        unchanged(calls) ==
            [col |-> col, cache |-> cache, created |-> created, calls |-> calls,
             inserted |-> FALSE]
    IN  IF admission_key \in DOMAIN cache
            THEN unchanged({})
        ELSE IF existing # {}
            THEN [unchanged({"find_one"}) EXCEPT !.created = created + 1]
        ELSE [col |-> col \cup {admission_doc_insert},
              cache |-> cache_set(cache, admission_key, oid),
              created |-> created + 1,
              calls |-> IF drop THEN {"insert_one"} ELSE {"find_one", "insert_one"},
              inserted |-> TRUE]

process_admission(data, pid, col, cache, created, drop, oid) ==
    LET date_of_admission == parse_date(data.date_of_admission)
        discharge_date == parse_date(data.discharge_date)
        admission_key == admission_key_of(data, pid)
        admission_doc_find ==
            [patient_id |-> pid, date_of_admission |-> date_of_admission,
             hospital |-> data.hospital, room_number |-> data.room_number]
        existing == IF ~drop THEN find_one_admission(col, admission_doc_find) ELSE {}
        admission_doc_insert ==
            [_id |-> oid,
             patient_id |-> pid,
             medical_condition |-> data.medical_condition,
             date_of_admission |-> date_of_admission,
             doctor |-> data.doctor,
             hospital |-> data.hospital,
             insurance_provider |-> data.insurance_provider,
             billing_amount |-> data.billing_amount,
             room_number |-> data.room_number,
             admission_type |-> data.admission_type,
             discharge_date |-> discharge_date,
             medication |-> data.medication,
             test_results |-> data.test_results]
        unchanged(calls) ==
            [col |-> col, cache |-> cache, created |-> created, calls |-> calls,
             inserted |-> FALSE]
    IN  IF admission_key \in DOMAIN cache
            THEN unchanged({})
        ELSE IF existing # {}
            THEN unchanged({"find_one"})
        ELSE [col |-> col \cup {admission_doc_insert},
              cache |-> cache_set(cache, admission_key, oid),
              created |-> created + 1,
              calls |-> IF drop THEN {"insert_one"} ELSE {"find_one", "insert_one"},
              inserted |-> TRUE]

----------------------------------------------------------------------------
(* main() *)

\* ObjectId(): an identifier no stored document carries, later in order than
\* all of them.
RECURSIVE max_id(_)
max_id(docs) ==
    IF docs = {} THEN 0
    ELSE LET d == CHOOSE d \in docs : TRUE
             m == max_id(docs \ {d})
         IN  IF d._id > m THEN d._id ELSE m

object_id(patients, admissions) ==
    1 + max_id({[_id |-> d._id] : d \in patients \cup admissions})

ObjectId == object_id(patients_col, admissions_col)

\* The row loop from row n of frame on, as a function of what it starts with:
\* process_admission(row, process_patient(row)) for every row, in order.
RECURSIVE row_loop(_, _, _, _)
row_loop(frame, n, st, drop) ==
    IF n > Len(frame) THEN st
    ELSE LET data == itertuple(frame, n)
             rp == process_patient(data, st.patients, st.patients_cache,
                                   st.created_patients, drop,
                                   object_id(st.patients, st.admissions))
             ra == process_admission(data, rp.patient_id, st.admissions,
                                     st.admissions_cache, st.created_admissions, drop,
                                     object_id(rp.col, st.admissions))
         IN  row_loop(frame, n + 1,
                      [patients |-> rp.col, admissions |-> ra.col,
                       patients_cache |-> rp.cache, admissions_cache |-> ra.cache,
                       created_patients |-> rp.created,
                       created_admissions |-> ra.created],
                      drop)

\* what the loop starts with on a store holding these collections
loop_start(patients, admissions) ==
    [patients |-> patients, admissions |-> admissions,
     patients_cache |-> EmptyCache, admissions_cache |-> EmptyCache,
     created_patients |-> 0, created_admissions |-> 0]

\* the store calls of one process_patient or process_admission, in the order
\* the function issues them
calls_in_order(calls) ==
    (IF "find_one" \in calls THEN <<"find_one">> ELSE <<>>)
        \o (IF "insert_one" \in calls THEN <<"insert_one">> ELSE <<>>)

Event(ev, row, calls, patients, admissions) ==
    [ev |-> ev, row |-> row, calls |-> calls,
     patients |-> Cardinality(patients), admissions |-> Cardinality(admissions)]

Terminal == {"done", "load_error", "parse_error", "crashed"}

RunLocalsInit ==
    /\ df = <<>>
    /\ i = 0
    /\ patient_id = 0
    /\ patients_cache = EmptyCache
    /\ admissions_cache = EmptyCache
    /\ created_patients = 0
    /\ created_admissions = 0
    /\ report = <<>>
    /\ store_calls = {}
    /\ resolved = <<>>
    /\ written = {}
    /\ events = <<>>

Init ==
    /\ file \in Files
    /\ drop_collections \in BOOLEAN
    /\ run = 1
    /\ pc = "start"
    /\ patients_col = {}
    /\ admissions_col = {}
    /\ indexes = [patients |-> {}, admissions |-> {}]
    /\ start_store = [patients |-> {}, admissions |-> {}]
    /\ prev = <<>>
    /\ RunLocalsInit

\* patients_col.drop()
DropPatients ==
    /\ pc = "start"
    /\ drop_collections
    /\ patients_col' = {}
    /\ indexes' = [indexes EXCEPT !.patients = {}]
    /\ store_calls' = store_calls \cup {"drop"}
    /\ pc' = "drop_admissions"
    /\ UNCHANGED <<file, drop_collections, run, admissions_col, df, i,
                   patient_id, patients_cache, admissions_cache, created_patients,
                   created_admissions, report, resolved, written, start_store, prev>>
    /\ events' = Append(events, Event("drop_patients", 0, <<"drop">>, {}, admissions_col))

\* admissions_col.drop()
DropAdmissions ==
    /\ pc = "drop_admissions"
    /\ admissions_col' = {}
    /\ indexes' = [indexes EXCEPT !.admissions = {}]
    /\ store_calls' = store_calls \cup {"drop"}
    /\ pc' = "load"
    /\ UNCHANGED <<file, drop_collections, run, patients_col, df, i,
                   patient_id, patients_cache, admissions_cache, created_patients,
                   created_admissions, report, resolved, written, start_store, prev>>
    /\ events' = Append(events, Event("drop_admissions", 0, <<"drop">>, patients_col, {}))

\* the file read whether or not the collections were reset first
AtLoad_without_reset == pc \in {"start", "load"}

AtLoad == pc = "load" \/ (pc = "start" /\ ~drop_collections)

\* pd.read_csv, the column names, the statistics and drop_duplicates
ReadCsv ==
    /\ AtLoad
    /\ df' = drop_duplicates(file)
    /\ pc' = "index"
    /\ UNCHANGED <<file, drop_collections, run, patients_col, admissions_col, indexes,
                   i, patient_id, patients_cache, admissions_cache,
                   created_patients, created_admissions, report, store_calls,
                   resolved, written, start_store, prev>>
    /\ events' = Append(events, Event("read_csv", 0, <<>>, patients_col, admissions_col))

\* pd.read_csv raises: the file is missing, unreadable or malformed
ReadCsvRaises ==
    /\ AtLoad
    /\ pc' = "load_error"
    /\ UNCHANGED <<events, file, drop_collections, run, patients_col, admissions_col, indexes,
                   df, i, patient_id, patients_cache, admissions_cache,
                   created_patients, created_admissions, report, store_calls,
                   resolved, written, start_store, prev>>

\* the loop leaving out the last row
LoopPc_stops_early(n) == IF n < Len(df) THEN "patient" ELSE "summary"

LoopPc(n) == IF n <= Len(df) THEN "patient" ELSE "summary"

\* create_index, then the empty caches and counters; the loop starts
CreateIndex ==
    /\ pc = "index"
    /\ indexes' = [patients |-> indexes.patients \cup {PatientsIndex},
                   admissions |-> indexes.admissions \cup {AdmissionsIndex}]
    /\ store_calls' = store_calls \cup {"create_index"}
    /\ patients_cache' = EmptyCache
    /\ admissions_cache' = EmptyCache
    /\ created_patients' = 0
    /\ created_admissions' = 0
    /\ i' = 1
    /\ pc' = LoopPc(1)
    /\ UNCHANGED <<file, drop_collections, run, patients_col, admissions_col, df,
                   patient_id, report, resolved, written, start_store, prev>>
    /\ events' = Append(events, Event("create_index", 0, <<"create_index", "create_index">>,
                                       patients_col, admissions_col))

\* process_patient(row)
ProcessPatient ==
    /\ pc = "patient"
    /\ LET r == process_patient(itertuple(df, i), patients_col, patients_cache,
                                created_patients, drop_collections, ObjectId)
       IN  /\ patient_id' = r.patient_id
           /\ patients_col' = r.col
           /\ patients_cache' = r.cache
           /\ created_patients' = r.created
           /\ store_calls' = store_calls \cup r.calls
           /\ resolved' = Append(resolved, r.patient_id)
           /\ events' = Append(events, Event("process_patient", i, calls_in_order(r.calls),
                                              r.col, admissions_col))
    /\ pc' = "admission"
    /\ UNCHANGED <<file, drop_collections, run, admissions_col, indexes, df, i,
                   admissions_cache, created_admissions, report, written,
                   start_store, prev>>

\* process_admission(row, patient_id), and the loop moves on
ProcessAdmission ==
    /\ pc = "admission"
    /\ ~process_admission_raises(itertuple(df, i))
    /\ LET r == process_admission(itertuple(df, i), patient_id, admissions_col,
                                  admissions_cache, created_admissions,
                                  drop_collections, ObjectId)
       IN  /\ admissions_col' = r.col
           /\ admissions_cache' = r.cache
           /\ created_admissions' = r.created
           /\ store_calls' = store_calls \cup r.calls
           /\ written' = written \cup (r.col \ admissions_col)
           /\ events' = Append(events, Event("process_admission", i, calls_in_order(r.calls),
                                              patients_col, r.col))
    /\ i' = i + 1
    /\ pc' = LoopPc(i + 1)
    /\ UNCHANGED <<file, drop_collections, run, patients_col, indexes, df, patient_id,
                   patients_cache, created_patients, report, resolved, start_store,
                   prev>>

\* parse_date raises in process_admission: main() ends with the exception
ProcessAdmissionRaises ==
    /\ pc = "admission"
    /\ process_admission_raises(itertuple(df, i))
    /\ pc' = "parse_error"
    /\ UNCHANGED <<events, file, drop_collections, run, patients_col, admissions_col, indexes,
                   df, i, patient_id, patients_cache, admissions_cache,
                   created_patients, created_admissions, report, store_calls,
                   resolved, written, start_store, prev>>

\* the process dies, or a store call raises, somewhere in the row loop
Crash ==
    /\ pc \in {"patient", "admission"}
    /\ pc' = "crashed"
    /\ UNCHANGED <<events, file, drop_collections, run, patients_col, admissions_col, indexes,
                   df, i, patient_id, patients_cache, admissions_cache,
                   created_patients, created_admissions, report, store_calls,
                   resolved, written, start_store, prev>>

\* the two count_documents and the summary lines of the log
Summarize ==
    /\ pc = "summary"
    /\ report' = [patients |-> Cardinality(patients_col),
                  created_patients |-> created_patients,
                  admissions |-> Cardinality(admissions_col),
                  created_admissions |-> created_admissions]
    /\ store_calls' = store_calls \cup {"count_documents"}
    /\ pc' = "done"
    /\ UNCHANGED <<file, drop_collections, run, patients_col, admissions_col, indexes,
                   df, i, patient_id, patients_cache, admissions_cache,
                   created_patients, created_admissions, resolved, written,
                   start_store, prev>>
    /\ events' = Append(events, Event("summary", 0, <<"count_documents", "count_documents">>,
                                       patients_col, admissions_col))

\* main() is started again on the same file and the same database
NextRun ==
    /\ pc \in Terminal
    /\ run < MaxRuns
    /\ run' = run + 1
    /\ drop_collections' \in BOOLEAN
    /\ pc' = "start"
    /\ prev' = <<[drop_collections |-> drop_collections,
                   pc |-> pc,
                   patients |-> patients_col,
                   admissions |-> admissions_col,
                   created_patients |-> created_patients,
                   created_admissions |-> created_admissions]>>
    /\ start_store' = [patients |-> patients_col, admissions |-> admissions_col]
    /\ df' = <<>>
    /\ i' = 0
    /\ patient_id' = 0
    /\ patients_cache' = EmptyCache
    /\ admissions_cache' = EmptyCache
    /\ created_patients' = 0
    /\ created_admissions' = 0
    /\ report' = <<>>
    /\ store_calls' = {}
    /\ resolved' = <<>>
    /\ written' = {}
    /\ UNCHANGED <<file, patients_col, admissions_col, indexes>>
    /\ events' = <<>>

Next ==
    \/ DropPatients
    \/ DropAdmissions
    \/ ReadCsv
    \/ ReadCsvRaises
    \/ CreateIndex
    \/ ProcessPatient
    \/ ProcessAdmission
    \/ ProcessAdmissionRaises
    \/ Crash
    \/ Summarize
    \/ NextRun

Spec == Init /\ [][Next]_vars

----------------------------------------------------------------------------
(* script.py: the earlier variant of the migration, run at module level *)

\* int(row.age) if not pd.isna(row.age) else None
script_age(v) == IF IsNaN(v) THEN NullAge ELSE v

script_patient_key(data) ==
    <<normalize_name(data.name), script_age(data.age), data.gender, data.blood_type>>

\* the patient block of the loop: the cache, then find_one unless the collections
\* were dropped, then insert_one; the identifier is cached in either case
script_patient(data, col, cache, drop, oid) ==
    LET patient_key == script_patient_key(data)
        patient_doc == [name |-> patient_key[1], age |-> patient_key[2],
                        gender |-> patient_key[3], blood_type |-> patient_key[4]]
        existing_patient == IF ~drop THEN find_one_patient(col, patient_doc) ELSE {}
    IN  IF patient_key \in DOMAIN cache
            THEN [patient_id |-> cache[patient_key], col |-> col, cache |-> cache,
                  calls |-> {}]
        ELSE IF existing_patient # {}
            THEN LET found == CHOOSE d \in existing_patient : TRUE
                 IN  [patient_id |-> found._id, col |-> col,
                      cache |-> cache_set(cache, patient_key, found._id),
                      calls |-> {"find_one"}]
        ELSE [patient_id |-> oid,
              col |-> col \cup {stored_patient(patient_doc, oid)},
              cache |-> cache_set(cache, patient_key, oid),
              calls |-> IF drop THEN {"insert_one"} ELSE {"find_one", "insert_one"}]

script_admission_key(data, pid) ==
    <<pid, data.date_of_admission, data.hospital, data.room_number>>

\* the filter of the admission lookup
script_find_one_admission(col, data, pid) ==
    first_of({d \in col : /\ d.patient_id = pid
                          /\ d.date_of_admission = data.date_of_admission
                          /\ d.hospital = data.hospital
                          /\ d.medical_condition = data.medical_condition})

\* the admission block of the loop: the dates are stored as read, and nothing
\* is ever put in admissions_cache
script_admission(data, pid, col, cache, drop, oid) ==
    LET admission_key == script_admission_key(data, pid)
        existing == IF ~drop THEN script_find_one_admission(col, data, pid) ELSE {}
        admission_doc ==
            [_id |-> oid,
             patient_id |-> pid,
             medical_condition |-> data.medical_condition,
             hospital |-> data.hospital,
             doctor |-> data.doctor,
             insurance_provider |-> data.insurance_provider,
             billing_amount |-> data.billing_amount,
             room_number |-> data.room_number,
             admission_type |-> data.admission_type,
             date_of_admission |-> data.date_of_admission,
             discharge_date |-> data.discharge_date,
             medication |-> data.medication,
             test_results |-> data.test_results]
    IN  IF admission_key \in DOMAIN cache
            THEN [col |-> col, calls |-> {}]
        ELSE IF existing # {}
            THEN [col |-> col, calls |-> {"find_one"}]
        ELSE [col |-> col \cup {admission_doc},
              calls |-> IF drop THEN {"insert_one"} ELSE {"find_one", "insert_one"}]

ScriptPatientsIndex == PatientsIndex
ScriptAdmissionsIndexes == {<<"patient_id">>, AdmissionsIndex}

\* the three create_index, then the empty caches; the loop starts
ScriptCreateIndex ==
    /\ pc = "index"
    /\ indexes' = [patients |-> indexes.patients \cup {ScriptPatientsIndex},
                   admissions |-> indexes.admissions \cup ScriptAdmissionsIndexes]
    /\ store_calls' = store_calls \cup {"create_index"}
    /\ patients_cache' = EmptyCache
    /\ admissions_cache' = EmptyCache
    /\ i' = 1
    /\ pc' = LoopPc(1)
    /\ events' = Append(events,
                        Event("create_index", 0,
                              <<"create_index", "create_index", "create_index">>,
                              patients_col, admissions_col))
    /\ UNCHANGED <<file, drop_collections, run, patients_col, admissions_col, df,
                   patient_id, created_patients, created_admissions, report,
                   resolved, written, start_store, prev>>

ScriptProcessPatient ==
    /\ pc = "patient"
    /\ LET r == script_patient(itertuple(df, i), patients_col, patients_cache,
                               drop_collections, ObjectId)
       IN  /\ patient_id' = r.patient_id
           /\ patients_col' = r.col
           /\ patients_cache' = r.cache
           /\ store_calls' = store_calls \cup r.calls
           /\ resolved' = Append(resolved, r.patient_id)
           /\ events' = Append(events, Event("process_patient", i, calls_in_order(r.calls),
                                              r.col, admissions_col))
    /\ pc' = "admission"
    /\ UNCHANGED <<file, drop_collections, run, admissions_col, indexes, df, i,
                   admissions_cache, created_patients, created_admissions, report,
                   written, start_store, prev>>

ScriptProcessAdmission ==
    /\ pc = "admission"
    /\ LET r == script_admission(itertuple(df, i), patient_id, admissions_col,
                                 admissions_cache, drop_collections, ObjectId)
       IN  /\ admissions_col' = r.col
           /\ store_calls' = store_calls \cup r.calls
           /\ written' = written \cup (r.col \ admissions_col)
           /\ events' = Append(events, Event("process_admission", i, calls_in_order(r.calls),
                                              patients_col, r.col))
    /\ i' = i + 1
    /\ pc' = LoopPc(i + 1)
    /\ UNCHANGED <<file, drop_collections, run, patients_col, indexes, df, patient_id,
                   patients_cache, admissions_cache, created_patients,
                   created_admissions, report, resolved, start_store, prev>>

\* the two count_documents printed at the end
ScriptSummarize ==
    /\ pc = "summary"
    /\ report' = [patients |-> Cardinality(patients_col),
                  admissions |-> Cardinality(admissions_col)]
    /\ store_calls' = store_calls \cup {"count_documents"}
    /\ pc' = "done"
    /\ events' = Append(events, Event("summary", 0, <<"count_documents", "count_documents">>,
                                       patients_col, admissions_col))
    /\ UNCHANGED <<file, drop_collections, run, patients_col, admissions_col, indexes,
                   df, i, patient_id, patients_cache, admissions_cache,
                   created_patients, created_admissions, resolved, written,
                   start_store, prev>>

ScriptNext ==
    \/ DropPatients
    \/ DropAdmissions
    \/ ReadCsv
    \/ ReadCsvRaises
    \/ ScriptCreateIndex
    \/ ScriptProcessPatient
    \/ ScriptProcessAdmission
    \/ Crash
    \/ ScriptSummarize
    \/ NextRun

ScriptSpec == Init /\ [][ScriptNext]_vars

----------------------------------------------------------------------------
(* Vocabulary of the properties *)

\* The identity of a patient as the store holds it.
PatientIdentity(row) ==
    <<normalize_name(row.name), bson_age(row.age), row.gender, row.blood_type>>

StoredPatientKey(p) == <<p.name, p.age, p.gender, p.blood_type>>

StoredAdmissionKey(a) ==
    <<a.patient_id, a.date_of_admission, a.hospital, a.room_number>>

PatientsWithKey(key) == {p \in patients_col : StoredPatientKey(p) = key}

AdmissionsWithKey(key) == {a \in admissions_col : StoredAdmissionKey(a) = key}

NoDuplicatePatients(col) ==
    \A p, q \in col : StoredPatientKey(p) = StoredPatientKey(q) => p = q

NoDuplicateAdmissions(col) ==
    \A a, b \in col : StoredAdmissionKey(a) = StoredAdmissionKey(b) => a = b

Rows == 1..Len(df)

\* process_patient has returned for row j of the current run
PatientResolved(j) == j <= Len(resolved)

Unparsable(date_str) == date_str # "nan" /\ ~Parsable(date_str)

PrevRun == prev[1]

----------------------------------------------------------------------------
(* C1 *)

\* C1: after a complete run that began on a store without duplicate patient
\* keys, the rows of the input that share (normalize_name(name), age, gender,
\* blood_type) were all given the same identifier by process_patient, and the
\* patients collection holds exactly one record with that key.
C1_OnePatientPerKey ==
    (pc = "done" /\ NoDuplicatePatients(start_store.patients)) =>
        \A j, k \in Rows :
            PatientIdentity(df[j]) = PatientIdentity(df[k]) =>
                /\ resolved[j] = resolved[k]
                /\ Cardinality(PatientsWithKey(PatientIdentity(df[j]))) = 1

----------------------------------------------------------------------------
(* C2 *)

----------------------------------------------------------------------------
(* C3 *)

BothAppendAndComplete ==
    /\ prev # <<>>
    /\ PrevRun.pc = "done"
    /\ ~PrevRun.drop_collections
    /\ ~drop_collections
    /\ pc = "done"

\* C3: when a complete run in append mode follows a complete run in append
\* mode on the same file, the store holds as many patient records and as many
\* admission records after the second as after the first.
C3_AppendIdempotent ==
    BothAppendAndComplete =>
        /\ Cardinality(patients_col) = Cardinality(PrevRun.patients)
        /\ Cardinality(admissions_col) = Cardinality(PrevRun.admissions)

\* two complete append runs over a file with rows, one of them without age
C3_Witness ==
    /\ BothAppendAndComplete
    /\ admissions_col # {}
    /\ \E j \in Rows : df[j].age = NaNAge

----------------------------------------------------------------------------
(* C4 *)

\* C4: when a complete run in append mode follows a complete run in fresh mode
\* on the same file, the second run has created no patient and no admission,
\* and the store holds as many records of each kind as after the first run.
C4_FreshThenAppend ==
    (/\ prev # <<>>
     /\ PrevRun.pc = "done"
     /\ PrevRun.drop_collections
     /\ ~drop_collections
     /\ pc = "done") =>
        /\ created_patients = 0
        /\ created_admissions = 0
        /\ Cardinality(patients_col) = Cardinality(PrevRun.patients)
        /\ Cardinality(admissions_col) = Cardinality(PrevRun.admissions)

----------------------------------------------------------------------------
(* C5 *)

\* C5: a complete run in fresh mode has created as many patients as the input
\* has distinct patient keys, and as many admissions as it has distinct keys
\* (patient, admission date, hospital, room_number).
C5_FreshCreatesOnePerKey ==
    (drop_collections /\ pc = "done") =>
        /\ created_patients = Cardinality({PatientIdentity(df[j]) : j \in Rows})
        /\ created_admissions =
            Cardinality({<<PatientIdentity(df[j]), parse_date(df[j].date_of_admission),
                           df[j].hospital, df[j].room_number>> : j \in Rows})

----------------------------------------------------------------------------
(* C6 *)

\* C6: in every state of a run, aborted or not, each admission record the run
\* has written carries the _id of a record of the patients collection.
C6_ReferentialIntegrity ==
    \A a \in written : \E p \in patients_col : p._id = a.patient_id

\* a run that wrote an admission and then died in the row loop
C6_Witness == pc = "crashed" /\ written # {}

----------------------------------------------------------------------------
(* C7 *)

HasUnparsableDate(row) ==
    Unparsable(row.date_of_admission) \/ Unparsable(row.discharge_date)

\* process_admission has been called for row j of the current run
AdmissionCalled(j) ==
    \/ j < i
    \/ j = i /\ pc = "parse_error"

\* C7: once process_admission has been called for a row with a present but
\* unparsable date, the run has not ended with the parsing exception, and the
\* store holds the row's admission with null for that date.
C7_UnparsableDateIsNull ==
    \A j \in Rows :
        (HasUnparsableDate(df[j]) /\ AdmissionCalled(j)) =>
            /\ pc # "parse_error"
            /\ \E a \in admissions_col :
                /\ a.patient_id = resolved[j]
                /\ a.hospital = df[j].hospital
                /\ a.room_number = df[j].room_number
                /\ Unparsable(df[j].date_of_admission) => a.date_of_admission = None
                /\ Unparsable(df[j].discharge_date) => a.discharge_date = None

----------------------------------------------------------------------------
(* C8 *)

\* C8: once process_patient has returned for a row without age, the record it
\* resolved to has age null, and every other resolved row without age and with
\* the same name, gender and blood_type resolved to the same record.
C8_MissingAgeIsNull ==
    \A j \in Rows :
        (df[j].age = NaNAge /\ PatientResolved(j)) =>
            /\ \E p \in patients_col : p._id = resolved[j] /\ p.age = NullAge
            /\ \A k \in Rows :
                (/\ PatientResolved(k)
                 /\ df[k].age = NaNAge
                 /\ normalize_name(df[k].name) = normalize_name(df[j].name)
                 /\ df[k].gender = df[j].gender
                 /\ df[k].blood_type = df[j].blood_type) => resolved[k] = resolved[j]

----------------------------------------------------------------------------
(* C9 *)

\* C9: when loading the file has failed, the run has issued no store operation
\* and the collections are as the run found them.
C9_LoadErrorBeforeStoreAccess ==
    pc = "load_error" =>
        /\ store_calls = {}
        /\ patients_col = start_store.patients
        /\ admissions_col = start_store.admissions

----------------------------------------------------------------------------
(* C10 *)

\* C10: when a complete run in append mode follows a run that died in the row
\* loop, the records the dead run left are still there, and for every input
\* row the store holds exactly one patient with the row's patient key and
\* exactly one admission with the row's admission key.
C10_CrashAndResume ==
    (/\ prev # <<>>
     /\ PrevRun.pc = "crashed"
     /\ ~drop_collections
     /\ pc = "done") =>
        /\ PrevRun.patients \subseteq patients_col
        /\ PrevRun.admissions \subseteq admissions_col
        /\ \A j \in Rows :
            /\ Cardinality(PatientsWithKey(PatientIdentity(df[j]))) = 1
            /\ Cardinality({a \in admissions_col :
                    /\ \E p \in PatientsWithKey(PatientIdentity(df[j])) :
                            p._id = a.patient_id
                    /\ a.date_of_admission = parse_date(df[j].date_of_admission)
                    /\ a.hospital = df[j].hospital
                    /\ a.room_number = df[j].room_number}) = 1

----------------------------------------------------------------------------
(* C11 *)

\* the key of row j's admission, with the identifier the row resolved to
RowAdmissionKey(j) ==
    <<resolved[j], parse_date(df[j].date_of_admission), df[j].hospital,
      df[j].room_number>>

\* the first row of the input with the admission key of row j
FirstWithKey(j) ==
    CHOOSE k \in Rows :
        /\ RowAdmissionKey(k) = RowAdmissionKey(j)
        /\ \A m \in Rows : RowAdmissionKey(m) = RowAdmissionKey(j) => k <= m

\* the record carries the columns of the row
CarriesRow(a, row) ==
    /\ a.medical_condition = row.medical_condition
    /\ a.doctor = row.doctor
    /\ a.insurance_provider = row.insurance_provider
    /\ a.billing_amount = row.billing_amount
    /\ a.admission_type = row.admission_type
    /\ a.discharge_date = parse_date(row.discharge_date)
    /\ a.medication = row.medication
    /\ a.test_results = row.test_results

\* the collections the row loop of the current run started on
LoopStartStore ==
    IF drop_collections THEN [patients |-> {}, admissions |-> {}] ELSE start_store

PatientKeySet(patients) == {StoredPatientKey(p) : p \in patients}

\* admission keys with the owner's attributes in place of its identifier
AdmissionKeySet(patients, admissions) ==
    {<<{StoredPatientKey(p) : p \in {q \in patients : q._id = a.patient_id}},
       a.date_of_admission, a.hospital, a.room_number>> : a \in admissions}

RowOrders == {f \in [Rows -> Rows] : \A x, y \in Rows : f[x] = f[y] => x = y}

Permuted(f) == [k \in Rows |-> df[f[k]]]

----------------------------------------------------------------------------
(* C12 *)

\* db.list_collection_names(): a collection exists once it holds a document or
\* an index
CollectionNames ==
    {c \in {"patients"} : patients_col # {} \/ indexes.patients # {}}
        \cup {c \in {"admissions"} : admissions_col # {} \/ indexes.admissions # {}}

\* C12: after a complete run on an input with at least one row, in fresh and in
\* append mode, both collections exist and each holds at least one record (and
\* the summary counted at least one of each).
C12_CollectionsNotEmpty ==
    (pc = "done" /\ Len(df) >= 1) =>
        /\ {"patients", "admissions"} \subseteq CollectionNames
        /\ patients_col # {}
        /\ admissions_col # {}
        /\ report.patients > 0
        /\ report.admissions > 0

\* a complete append run on rows that were all in the store already
C12_Witness ==
    /\ pc = "done"
    /\ Len(df) >= 1
    /\ ~drop_collections
    /\ created_patients = 0
    /\ created_admissions = 0

----------------------------------------------------------------------------
(* C13 *)

\* the process_patient steps of the current run, so far, on rows with the
\* patient key of row j that issued the store call op
PatientCalls(j, op) ==
    {n \in 1..Len(events) :
        /\ events[n].ev = "process_patient"
        /\ PatientIdentity(df[events[n].row]) = PatientIdentity(df[j])
        /\ \E c \in 1..Len(events[n].calls) : events[n].calls[c] = op}

\* C13: at every point of a run, the rows sharing a patient key have caused at
\* most one find_one and at most one insert_one on the patients collection, and
\* a key whose patient was found in the store is in patients_cache.
C13_OneReadOneWritePerKey ==
    /\ \A j \in Rows :
        /\ Cardinality(PatientCalls(j, "find_one")) <= 1
        /\ Cardinality(PatientCalls(j, "insert_one")) <= 1
    /\ \A n \in 1..Len(events) :
        (events[n].ev = "process_patient" /\ events[n].calls = <<"find_one">>) =>
            patient_key_of(itertuple(df, events[n].row)) \in DOMAIN patients_cache

----------------------------------------------------------------------------
(* C14 *)

\* process_admission found the admission of events[n].row in the store
FoundInStore(n) ==
    events[n].ev = "process_admission" /\ events[n].calls = <<"find_one">>

\* C14: in append mode, once process_admission has found a row's admission in
\* the store, it has inserted nothing, the key is in admissions_cache, and no
\* later row with the same key has issued a store call.
C14_FoundAdmissionIsCached ==
    \A n \in 1..Len(events) :
        FoundInStore(n) =>
            /\ events[n].admissions = events[n - 1].admissions
            /\ RowAdmissionKey(events[n].row) \in DOMAIN admissions_cache
            /\ \A m \in (n + 1)..Len(events) :
                (/\ events[m].ev = "process_admission"
                 /\ RowAdmissionKey(events[m].row) = RowAdmissionKey(events[n].row))
                    => events[m].calls = <<>>

----------------------------------------------------------------------------
(* C15 *)

NoFindOneSoFar ==
    \A n \in 1..Len(events) :
        \A c \in 1..Len(events[n].calls) : events[n].calls[c] # "find_one"

\* process_patient is called on a row whose key is in patients_cache
PatientCacheHit ==
    /\ pc = "patient"
    /\ pc' = "admission"
    /\ <<normalize_name(df[i].name), itertuple(df, i).age, df[i].gender,
         df[i].blood_type>> \in DOMAIN patients_cache

\* C15: a run in fresh mode never issues a find_one, and in either mode a
\* process_patient whose key is in the cache returns the cached identifier,
\* issues no store call and leaves the collections, the cache and the
\* created-patients counter as they were.
C15_NoQueryWhenFreshOrCached ==
    /\ [](drop_collections => NoFindOneSoFar)
    /\ [][PatientCacheHit =>
            /\ patient_id' =
                patients_cache[<<normalize_name(df[i].name), itertuple(df, i).age,
                                 df[i].gender, df[i].blood_type>>]
            /\ events'[Len(events')].calls = <<>>
            /\ UNCHANGED <<patients_col, admissions_col, patients_cache,
                           created_patients>>]_vars

\* process_patient answered a row of an append run without a store call
C15_Witness ==
    /\ ~drop_collections
    /\ pc = "admission"
    /\ events[Len(events)].ev = "process_patient"
    /\ events[Len(events)].calls = <<>>

----------------------------------------------------------------------------
(* C16 *)

RECURSIVE RowSteps(_, _)
RowSteps(n, last) ==
    IF n > last THEN <<>>
    ELSE <<<<"process_patient", n>>, <<"process_admission", n>>>>
            \o RowSteps(n + 1, last)

\* the steps of a complete run over frame, in the order of the driver's stages
ExpectedSteps(frame) ==
    (IF drop_collections
        THEN <<<<"drop_patients", 0>>, <<"drop_admissions", 0>>>> ELSE <<>>)
    \o <<<<"read_csv", 0>>, <<"create_index", 0>>>>
    \o RowSteps(1, Len(frame))
    \o <<<<"summary", 0>>>>

StepsSoFar == [n \in 1..Len(events) |-> <<events[n].ev, events[n].row>>]

\* C16: the steps a run has taken are always a prefix of: the reset of both
\* collections (when the flag is set), the load, the indexes, then for each row
\* in input order process_patient followed by process_admission, then the
\* summary; a complete run has taken exactly these steps, and both indexes
\* exist whenever a row is resolved.
C16_StageOrder ==
    /\ Len(StepsSoFar) <= Len(ExpectedSteps(df))
    /\ StepsSoFar = SubSeq(ExpectedSteps(df), 1, Len(StepsSoFar))
    /\ pc = "done" => StepsSoFar = ExpectedSteps(df)
    /\ pc \in {"patient", "admission"} =>
        /\ PatientsIndex \in indexes.patients
        /\ AdmissionsIndex \in indexes.admissions

\* a complete run in fresh mode over two rows
C16_Witness == pc = "done" /\ drop_collections /\ Len(df) >= 2

----------------------------------------------------------------------------
(* C17 *)

\* the loop of script.py has finished the admission block of row i
ScriptAdmissionDone == pc = "admission" /\ i' = i + 1

\* an admission record with the key of row i is in the collection (in fresh mode
\* the collection holds what this run inserted, in append mode the store too)
AdmissionKeyKnown ==
    \E a \in admissions_col :
        StoredAdmissionKey(a) = script_admission_key(itertuple(df, i), patient_id)

\* C17: under script.py, the admission block of a row inserts nothing if and
\* only if a record with the row's key (patient_id, date_of_admission,
\* hospital, room_number) is already in the collection; and after a complete
\* run no two admission records share that key.
C17_ScriptSkipsIffKeyKnown ==
    /\ [][ScriptAdmissionDone =>
            (admissions_col' = admissions_col <=> AdmissionKeyKnown)]_vars
    /\ [](pc = "done" => NoDuplicateAdmissions(admissions_col))

----------------------------------------------------------------------------
(* C18 *)

\* admission records without their identifiers, the owner given by its attributes
AdmissionRecords(patients, admissions) ==
    {<<{StoredPatientKey(p) : p \in {q \in patients : q._id = a.patient_id}},
       [a EXCEPT !._id = 0, !.patient_id = 0]>> : a \in admissions}

\* what a run in fresh mode makes of the rows of the current run
FreshRun == row_loop(df, 1, loop_start({}, {}), TRUE)

AppendOnEmptyStore ==
    /\ ~drop_collections
    /\ start_store.patients = {}
    /\ start_store.admissions = {}

\* C18: a complete run in append mode that started on empty collections leaves
\* the patient and admission records (identifiers aside) and the two counters
\* that a run in fresh mode over the same rows leaves.
C18_ModeEquivalence ==
    (pc = "done" /\ AppendOnEmptyStore) =>
        /\ PatientKeySet(patients_col) = PatientKeySet(FreshRun.patients)
        /\ Cardinality(patients_col) = Cardinality(FreshRun.patients)
        /\ AdmissionRecords(patients_col, admissions_col)
                = AdmissionRecords(FreshRun.patients, FreshRun.admissions)
        /\ Cardinality(admissions_col) = Cardinality(FreshRun.admissions)
        /\ created_patients = FreshRun.created_patients
        /\ created_admissions = FreshRun.created_admissions

----------------------------------------------------------------------------
(* C19 *)

\* create_index has returned: the counters exist and the row loop is under way
\* or over
LoopStarted == \E n \in 1..Len(events) : events[n].ev = "create_index"

\* how many calls of process_patient or process_admission issued an insert_one
\* so far in this run
InsertCalls(ev) ==
    Cardinality({n \in 1..Len(events) :
                    /\ events[n].ev = ev
                    /\ \E k \in 1..Len(events[n].calls) :
                            events[n].calls[k] = "insert_one"})

\* C19: from the start of the row loop on, created_patients is the number of
\* patient records this run has inserted and created_admissions the number of
\* admission records it has inserted; the summary's count of each collection is
\* its count when the loop started plus the counter, and the counter itself in
\* fresh mode.
C19_CounterAccuracy ==
    /\ LoopStarted =>
        /\ created_patients = InsertCalls("process_patient")
        /\ created_patients = Cardinality(patients_col \ LoopStartStore.patients)
        /\ created_admissions = InsertCalls("process_admission")
        /\ created_admissions = Cardinality(admissions_col \ LoopStartStore.admissions)
    /\ pc = "done" =>
        /\ report.patients
                = Cardinality(LoopStartStore.patients) + report.created_patients
        /\ report.admissions
                = Cardinality(LoopStartStore.admissions) + report.created_admissions
        /\ drop_collections =>
                /\ report.patients = report.created_patients
                /\ report.admissions = report.created_admissions

\* a complete append run on a store that held admissions, which found one and
\* inserted another
C19_Witness ==
    /\ pc = "done"
    /\ ~drop_collections
    /\ LoopStartStore.admissions # {}
    /\ created_admissions > 0
    /\ created_admissions < Len(df)

----------------------------------------------------------------------------
(* C20 *)

\* the key as the store encodes it
EncodedPatientKey(key) == <<key[1], bson_age(key[2]), key[3], key[4]>>

PatientsCacheSound ==
    \A key \in DOMAIN patients_cache :
        \E p \in patients_col :
            /\ p._id = patients_cache[key]
            /\ StoredPatientKey(p) = EncodedPatientKey(key)

AdmissionsCacheSound ==
    \A key \in DOMAIN admissions_cache :
        \E a \in admissions_col : StoredAdmissionKey(a) = key

\* every entry of the cache is in the cache of the next state, unchanged
CacheKept(cache, next_cache) ==
    \A key \in DOMAIN cache : key \in DOMAIN next_cache /\ next_cache[key] = cache[key]

\* C20: every entry of patients_cache maps its key to the identifier of a
\* stored patient record that has the key's four attributes, every key of
\* admissions_cache is the key of a stored admission record, and within a run
\* no entry of either cache is removed or given another value.
C20_CacheSoundness ==
    /\ [](PatientsCacheSound /\ AdmissionsCacheSound)
    /\ [][run' = run =>
            /\ CacheKept(patients_cache, patients_cache')
            /\ CacheKept(admissions_cache, admissions_cache')]_vars

\* two patients cached, one of them without age, and two admissions cached
C20_Witness ==
    /\ Cardinality(DOMAIN patients_cache) = 2
    /\ \E key \in DOMAIN patients_cache : IsNaN(key[2])
    /\ Cardinality(DOMAIN admissions_cache) = 2

====
